---- MODULE Spec2Model ----
(***************************************************************************)
(* A model of process_contacts.py: the contact classification pipeline     *)
(* (parse_vcf, normalize_phone, contact_in_list, write_csv, write_vcf,     *)
(* filter_contacts and the script entry point).                            *)
(*                                                                         *)
(* Python strings are modelled as sequences of Unicode code points, so     *)
(* that strip, replace, lower, startswith, endswith and "in" are computed  *)
(* character by character as the interpreter computes them.                *)
(***************************************************************************)
EXTENDS Integers, Sequences, FiniteSets, TLC

VARIABLES
    pc,                 \* position of the run in the script
    input_file,         \* the input .vcf: [readable, cards]
    dir_exists,         \* whether output_dir exists on disk
    dir_created,        \* whether this run created output_dir
    contacts,           \* the local name `contacts` of filter_contacts
    all_contacts,       \* the list parse_vcf returned (the object first bound to `contacts`)
    processed_contacts, \* contacts already added to a list
    rule_idx,           \* index in AllLabels of the label being handled
    buckets,            \* buckets[k]: the list selected for AllLabels[k]
    filtered_counts,    \* the dict filtered_counts: [label, count] in insertion order
    written,            \* names of the files written successfully, in order
    vcf_files,          \* vcf_files[k]: the cards written to <AllLabels[k]>.vcf
    csv_files,          \* csv_files[k]: header and rows written to <AllLabels[k]>.csv
    email_map,          \* insertion-ordered list of [key, members]
    phone_map,          \* insertion-ordered list of [key, members]
    report,             \* the lines written to check_results.txt
    report_open,        \* whether check_results.txt has been opened for writing
    np_in,              \* normalize_phone harness: argument
    np_once,            \* normalize_phone(np_in)
    np_twice,           \* normalize_phone(normalize_phone(np_in))
    np_pc               \* normalize_phone harness: position

vars == <<pc, input_file, dir_exists, dir_created, contacts, all_contacts,
          processed_contacts, rule_idx, buckets, filtered_counts, written, vcf_files, csv_files, email_map,
          phone_map, report, report_open, np_in, np_once, np_twice, np_pc>>

pipeline_vars == <<pc, input_file, dir_exists, dir_created, contacts,
          all_contacts, processed_contacts, rule_idx, buckets, filtered_counts, written, vcf_files, csv_files, email_map,
          phone_map, report, report_open>>

np_vars == <<np_in, np_once, np_twice, np_pc>>

(***************************************************************************)
(* Bounds of the model.                                                    *)
(***************************************************************************)
MaxContacts == 2
MaxDupContacts == 3
MaxPhoneLen == 4

(***************************************************************************)
(* Python str operations.  A str is the sequence of its Unicode code       *)
(* points (integers), so every character of the interpreter can be fed to  *)
(* the model.  The character tables are those of CPython 3.11 (Unicode 14).*)
(***************************************************************************)
\* the characters str.strip() removes: those for which str.isspace() holds
Whitespace ==
    {9, 10, 11, 12, 13, 28, 29, 30, 31, 32, 133, 160, 5760, 8192, 8193,
     8194, 8195, 8196, 8197, 8198, 8199, 8200, 8201, 8202, 8232, 8233,
     8239, 8287, 12288}

\* <<first, last, step, delta>>: the characters first, first + step, ..., last
\* have the one-character lower case c + delta
LowerRanges ==
    {<<65, 90, 1, 32>>, <<192, 214, 1, 32>>, <<216, 222, 1, 32>>, <<256,
     302, 2, 1>>, <<306, 310, 2, 1>>, <<313, 327, 2, 1>>, <<330, 374, 2,
     1>>, <<376, 376, 1, -121>>, <<377, 381, 2, 1>>, <<385, 385, 1, 210>>,
     <<386, 388, 2, 1>>, <<390, 390, 1, 206>>, <<391, 391, 1, 1>>, <<393,
     394, 1, 205>>, <<395, 395, 1, 1>>, <<398, 398, 1, 79>>, <<399, 399,
     1, 202>>, <<400, 400, 1, 203>>, <<401, 401, 1, 1>>, <<403, 403, 1,
     205>>, <<404, 404, 1, 207>>, <<406, 406, 1, 211>>, <<407, 407, 1,
     209>>, <<408, 408, 1, 1>>, <<412, 412, 1, 211>>, <<413, 413, 1,
     213>>, <<415, 415, 1, 214>>, <<416, 420, 2, 1>>, <<422, 422, 1,
     218>>, <<423, 423, 1, 1>>, <<425, 425, 1, 218>>, <<428, 428, 1, 1>>,
     <<430, 430, 1, 218>>, <<431, 431, 1, 1>>, <<433, 434, 1, 217>>,
     <<435, 437, 2, 1>>, <<439, 439, 1, 219>>, <<440, 440, 1, 1>>, <<444,
     444, 1, 1>>, <<452, 452, 1, 2>>, <<453, 453, 1, 1>>, <<455, 455, 1,
     2>>, <<456, 456, 1, 1>>, <<458, 458, 1, 2>>, <<459, 475, 2, 1>>,
     <<478, 494, 2, 1>>, <<497, 497, 1, 2>>, <<498, 500, 2, 1>>, <<502,
     502, 1, -97>>, <<503, 503, 1, -56>>, <<504, 542, 2, 1>>, <<544, 544,
     1, -130>>, <<546, 562, 2, 1>>, <<570, 570, 1, 10795>>, <<571, 571, 1,
     1>>, <<573, 573, 1, -163>>, <<574, 574, 1, 10792>>, <<577, 577, 1,
     1>>, <<579, 579, 1, -195>>, <<580, 580, 1, 69>>, <<581, 581, 1, 71>>,
     <<582, 590, 2, 1>>, <<880, 882, 2, 1>>, <<886, 886, 1, 1>>, <<895,
     895, 1, 116>>, <<902, 902, 1, 38>>, <<904, 906, 1, 37>>, <<908, 908,
     1, 64>>, <<910, 911, 1, 63>>, <<913, 929, 1, 32>>, <<932, 939, 1,
     32>>, <<975, 975, 1, 8>>, <<984, 1006, 2, 1>>, <<1012, 1012, 1,
     -60>>, <<1015, 1015, 1, 1>>, <<1017, 1017, 1, -7>>, <<1018, 1018, 1,
     1>>, <<1021, 1023, 1, -130>>, <<1024, 1039, 1, 80>>, <<1040, 1071, 1,
     32>>, <<1120, 1152, 2, 1>>, <<1162, 1214, 2, 1>>, <<1216, 1216, 1,
     15>>, <<1217, 1229, 2, 1>>, <<1232, 1326, 2, 1>>, <<1329, 1366, 1,
     48>>, <<4256, 4293, 1, 7264>>, <<4295, 4295, 1, 7264>>, <<4301, 4301,
     1, 7264>>, <<5024, 5103, 1, 38864>>, <<5104, 5109, 1, 8>>, <<7312,
     7354, 1, -3008>>, <<7357, 7359, 1, -3008>>, <<7680, 7828, 2, 1>>,
     <<7838, 7838, 1, -7615>>, <<7840, 7934, 2, 1>>, <<7944, 7951, 1,
     -8>>, <<7960, 7965, 1, -8>>, <<7976, 7983, 1, -8>>, <<7992, 7999, 1,
     -8>>, <<8008, 8013, 1, -8>>, <<8025, 8031, 2, -8>>, <<8040, 8047, 1,
     -8>>, <<8072, 8079, 1, -8>>, <<8088, 8095, 1, -8>>, <<8104, 8111, 1,
     -8>>, <<8120, 8121, 1, -8>>, <<8122, 8123, 1, -74>>, <<8124, 8124, 1,
     -9>>, <<8136, 8139, 1, -86>>, <<8140, 8140, 1, -9>>, <<8152, 8153, 1,
     -8>>, <<8154, 8155, 1, -100>>, <<8168, 8169, 1, -8>>, <<8170, 8171,
     1, -112>>, <<8172, 8172, 1, -7>>, <<8184, 8185, 1, -128>>, <<8186,
     8187, 1, -126>>, <<8188, 8188, 1, -9>>, <<8486, 8486, 1, -7517>>,
     <<8490, 8490, 1, -8383>>, <<8491, 8491, 1, -8262>>, <<8498, 8498, 1,
     28>>, <<8544, 8559, 1, 16>>, <<8579, 8579, 1, 1>>, <<9398, 9423, 1,
     26>>, <<11264, 11311, 1, 48>>, <<11360, 11360, 1, 1>>, <<11362,
     11362, 1, -10743>>, <<11363, 11363, 1, -3814>>, <<11364, 11364, 1,
     -10727>>, <<11367, 11371, 2, 1>>, <<11373, 11373, 1, -10780>>,
     <<11374, 11374, 1, -10749>>, <<11375, 11375, 1, -10783>>, <<11376,
     11376, 1, -10782>>, <<11378, 11378, 1, 1>>, <<11381, 11381, 1, 1>>,
     <<11390, 11391, 1, -10815>>, <<11392, 11490, 2, 1>>, <<11499, 11501,
     2, 1>>, <<11506, 11506, 1, 1>>, <<42560, 42604, 2, 1>>, <<42624,
     42650, 2, 1>>, <<42786, 42798, 2, 1>>, <<42802, 42862, 2, 1>>,
     <<42873, 42875, 2, 1>>, <<42877, 42877, 1, -35332>>, <<42878, 42886,
     2, 1>>, <<42891, 42891, 1, 1>>, <<42893, 42893, 1, -42280>>, <<42896,
     42898, 2, 1>>, <<42902, 42920, 2, 1>>, <<42922, 42922, 1, -42308>>,
     <<42923, 42923, 1, -42319>>, <<42924, 42924, 1, -42315>>, <<42925,
     42925, 1, -42305>>, <<42926, 42926, 1, -42308>>, <<42928, 42928, 1,
     -42258>>, <<42929, 42929, 1, -42282>>, <<42930, 42930, 1, -42261>>,
     <<42931, 42931, 1, 928>>, <<42932, 42946, 2, 1>>, <<42948, 42948, 1,
     -48>>, <<42949, 42949, 1, -42307>>, <<42950, 42950, 1, -35384>>,
     <<42951, 42953, 2, 1>>, <<42960, 42960, 1, 1>>, <<42966, 42968, 2,
     1>>, <<42997, 42997, 1, 1>>, <<65313, 65338, 1, 32>>, <<66560, 66599,
     1, 40>>, <<66736, 66771, 1, 40>>, <<66928, 66938, 1, 39>>, <<66940,
     66954, 1, 39>>, <<66956, 66962, 1, 39>>, <<66964, 66965, 1, 39>>,
     <<68736, 68786, 1, 64>>, <<71840, 71871, 1, 32>>, <<93760, 93791, 1,
     32>>, <<125184, 125217, 1, 34>>}

\* <<first, last>>: the cased characters that are not case-ignorable
CasedIntervals ==
    {<<65, 90>>, <<97, 122>>, <<170, 170>>, <<181, 181>>, <<186, 186>>,
     <<192, 214>>, <<216, 246>>, <<248, 442>>, <<444, 447>>, <<452, 659>>,
     <<661, 687>>, <<880, 883>>, <<886, 887>>, <<891, 893>>, <<895, 895>>,
     <<902, 902>>, <<904, 906>>, <<908, 908>>, <<910, 929>>, <<931,
     1013>>, <<1015, 1153>>, <<1162, 1327>>, <<1329, 1366>>, <<1376,
     1416>>, <<4256, 4293>>, <<4295, 4295>>, <<4301, 4301>>, <<4304,
     4346>>, <<4349, 4351>>, <<5024, 5109>>, <<5112, 5117>>, <<7296,
     7304>>, <<7312, 7354>>, <<7357, 7359>>, <<7424, 7467>>, <<7531,
     7543>>, <<7545, 7578>>, <<7680, 7957>>, <<7960, 7965>>, <<7968,
     8005>>, <<8008, 8013>>, <<8016, 8023>>, <<8025, 8025>>, <<8027,
     8027>>, <<8029, 8029>>, <<8031, 8061>>, <<8064, 8116>>, <<8118,
     8124>>, <<8126, 8126>>, <<8130, 8132>>, <<8134, 8140>>, <<8144,
     8147>>, <<8150, 8155>>, <<8160, 8172>>, <<8178, 8180>>, <<8182,
     8188>>, <<8450, 8450>>, <<8455, 8455>>, <<8458, 8467>>, <<8469,
     8469>>, <<8473, 8477>>, <<8484, 8484>>, <<8486, 8486>>, <<8488,
     8488>>, <<8490, 8493>>, <<8495, 8500>>, <<8505, 8505>>, <<8508,
     8511>>, <<8517, 8521>>, <<8526, 8526>>, <<8544, 8575>>, <<8579,
     8580>>, <<9398, 9449>>, <<11264, 11387>>, <<11390, 11492>>, <<11499,
     11502>>, <<11506, 11507>>, <<11520, 11557>>, <<11559, 11559>>,
     <<11565, 11565>>, <<42560, 42605>>, <<42624, 42651>>, <<42786,
     42863>>, <<42865, 42887>>, <<42891, 42894>>, <<42896, 42954>>,
     <<42960, 42961>>, <<42963, 42963>>, <<42965, 42969>>, <<42997,
     42998>>, <<43002, 43002>>, <<43824, 43866>>, <<43872, 43880>>,
     <<43888, 43967>>, <<64256, 64262>>, <<64275, 64279>>, <<65313,
     65338>>, <<65345, 65370>>, <<66560, 66639>>, <<66736, 66771>>,
     <<66776, 66811>>, <<66928, 66938>>, <<66940, 66954>>, <<66956,
     66962>>, <<66964, 66965>>, <<66967, 66977>>, <<66979, 66993>>,
     <<66995, 67001>>, <<67003, 67004>>, <<68736, 68786>>, <<68800,
     68850>>, <<71840, 71903>>, <<93760, 93823>>, <<119808, 119892>>,
     <<119894, 119964>>, <<119966, 119967>>, <<119970, 119970>>, <<119973,
     119974>>, <<119977, 119980>>, <<119982, 119993>>, <<119995, 119995>>,
     <<119997, 120003>>, <<120005, 120069>>, <<120071, 120074>>, <<120077,
     120084>>, <<120086, 120092>>, <<120094, 120121>>, <<120123, 120126>>,
     <<120128, 120132>>, <<120134, 120134>>, <<120138, 120144>>, <<120146,
     120485>>, <<120488, 120512>>, <<120514, 120538>>, <<120540, 120570>>,
     <<120572, 120596>>, <<120598, 120628>>, <<120630, 120654>>, <<120656,
     120686>>, <<120688, 120712>>, <<120714, 120744>>, <<120746, 120770>>,
     <<120772, 120779>>, <<122624, 122633>>, <<122635, 122654>>, <<125184,
     125251>>, <<127280, 127305>>, <<127312, 127337>>, <<127344, 127369>>}

\* <<first, last>>: the case-ignorable characters
IgnorableIntervals ==
    {<<39, 39>>, <<46, 46>>, <<58, 58>>, <<94, 94>>, <<96, 96>>, <<168,
     168>>, <<173, 173>>, <<175, 175>>, <<180, 180>>, <<183, 184>>, <<688,
     879>>, <<884, 885>>, <<890, 890>>, <<900, 901>>, <<903, 903>>,
     <<1155, 1161>>, <<1369, 1369>>, <<1375, 1375>>, <<1425, 1469>>,
     <<1471, 1471>>, <<1473, 1474>>, <<1476, 1477>>, <<1479, 1479>>,
     <<1524, 1524>>, <<1536, 1541>>, <<1552, 1562>>, <<1564, 1564>>,
     <<1600, 1600>>, <<1611, 1631>>, <<1648, 1648>>, <<1750, 1757>>,
     <<1759, 1768>>, <<1770, 1773>>, <<1807, 1807>>, <<1809, 1809>>,
     <<1840, 1866>>, <<1958, 1968>>, <<2027, 2037>>, <<2042, 2042>>,
     <<2045, 2045>>, <<2070, 2093>>, <<2137, 2139>>, <<2184, 2184>>,
     <<2192, 2193>>, <<2200, 2207>>, <<2249, 2306>>, <<2362, 2362>>,
     <<2364, 2364>>, <<2369, 2376>>, <<2381, 2381>>, <<2385, 2391>>,
     <<2402, 2403>>, <<2417, 2417>>, <<2433, 2433>>, <<2492, 2492>>,
     <<2497, 2500>>, <<2509, 2509>>, <<2530, 2531>>, <<2558, 2558>>,
     <<2561, 2562>>, <<2620, 2620>>, <<2625, 2626>>, <<2631, 2632>>,
     <<2635, 2637>>, <<2641, 2641>>, <<2672, 2673>>, <<2677, 2677>>,
     <<2689, 2690>>, <<2748, 2748>>, <<2753, 2757>>, <<2759, 2760>>,
     <<2765, 2765>>, <<2786, 2787>>, <<2810, 2815>>, <<2817, 2817>>,
     <<2876, 2876>>, <<2879, 2879>>, <<2881, 2884>>, <<2893, 2893>>,
     <<2901, 2902>>, <<2914, 2915>>, <<2946, 2946>>, <<3008, 3008>>,
     <<3021, 3021>>, <<3072, 3072>>, <<3076, 3076>>, <<3132, 3132>>,
     <<3134, 3136>>, <<3142, 3144>>, <<3146, 3149>>, <<3157, 3158>>,
     <<3170, 3171>>, <<3201, 3201>>, <<3260, 3260>>, <<3263, 3263>>,
     <<3270, 3270>>, <<3276, 3277>>, <<3298, 3299>>, <<3328, 3329>>,
     <<3387, 3388>>, <<3393, 3396>>, <<3405, 3405>>, <<3426, 3427>>,
     <<3457, 3457>>, <<3530, 3530>>, <<3538, 3540>>, <<3542, 3542>>,
     <<3633, 3633>>, <<3636, 3642>>, <<3654, 3662>>, <<3761, 3761>>,
     <<3764, 3772>>, <<3782, 3782>>, <<3784, 3789>>, <<3864, 3865>>,
     <<3893, 3893>>, <<3895, 3895>>, <<3897, 3897>>, <<3953, 3966>>,
     <<3968, 3972>>, <<3974, 3975>>, <<3981, 3991>>, <<3993, 4028>>,
     <<4038, 4038>>, <<4141, 4144>>, <<4146, 4151>>, <<4153, 4154>>,
     <<4157, 4158>>, <<4184, 4185>>, <<4190, 4192>>, <<4209, 4212>>,
     <<4226, 4226>>, <<4229, 4230>>, <<4237, 4237>>, <<4253, 4253>>,
     <<4348, 4348>>, <<4957, 4959>>, <<5906, 5908>>, <<5938, 5939>>,
     <<5970, 5971>>, <<6002, 6003>>, <<6068, 6069>>, <<6071, 6077>>,
     <<6086, 6086>>, <<6089, 6099>>, <<6103, 6103>>, <<6109, 6109>>,
     <<6155, 6159>>, <<6211, 6211>>, <<6277, 6278>>, <<6313, 6313>>,
     <<6432, 6434>>, <<6439, 6440>>, <<6450, 6450>>, <<6457, 6459>>,
     <<6679, 6680>>, <<6683, 6683>>, <<6742, 6742>>, <<6744, 6750>>,
     <<6752, 6752>>, <<6754, 6754>>, <<6757, 6764>>, <<6771, 6780>>,
     <<6783, 6783>>, <<6823, 6823>>, <<6832, 6862>>, <<6912, 6915>>,
     <<6964, 6964>>, <<6966, 6970>>, <<6972, 6972>>, <<6978, 6978>>,
     <<7019, 7027>>, <<7040, 7041>>, <<7074, 7077>>, <<7080, 7081>>,
     <<7083, 7085>>, <<7142, 7142>>, <<7144, 7145>>, <<7149, 7149>>,
     <<7151, 7153>>, <<7212, 7219>>, <<7222, 7223>>, <<7288, 7293>>,
     <<7376, 7378>>, <<7380, 7392>>, <<7394, 7400>>, <<7405, 7405>>,
     <<7412, 7412>>, <<7416, 7417>>, <<7468, 7530>>, <<7544, 7544>>,
     <<7579, 7679>>, <<8125, 8125>>, <<8127, 8129>>, <<8141, 8143>>,
     <<8157, 8159>>, <<8173, 8175>>, <<8189, 8190>>, <<8203, 8207>>,
     <<8216, 8217>>, <<8228, 8228>>, <<8231, 8231>>, <<8234, 8238>>,
     <<8288, 8292>>, <<8294, 8303>>, <<8305, 8305>>, <<8319, 8319>>,
     <<8336, 8348>>, <<8400, 8432>>, <<11388, 11389>>, <<11503, 11505>>,
     <<11631, 11631>>, <<11647, 11647>>, <<11744, 11775>>, <<11823,
     11823>>, <<12293, 12293>>, <<12330, 12333>>, <<12337, 12341>>,
     <<12347, 12347>>, <<12441, 12446>>, <<12540, 12542>>, <<40981,
     40981>>, <<42232, 42237>>, <<42508, 42508>>, <<42607, 42610>>,
     <<42612, 42621>>, <<42623, 42623>>, <<42652, 42655>>, <<42736,
     42737>>, <<42752, 42785>>, <<42864, 42864>>, <<42888, 42890>>,
     <<42994, 42996>>, <<43000, 43001>>, <<43010, 43010>>, <<43014,
     43014>>, <<43019, 43019>>, <<43045, 43046>>, <<43052, 43052>>,
     <<43204, 43205>>, <<43232, 43249>>, <<43263, 43263>>, <<43302,
     43309>>, <<43335, 43345>>, <<43392, 43394>>, <<43443, 43443>>,
     <<43446, 43449>>, <<43452, 43453>>, <<43471, 43471>>, <<43493,
     43494>>, <<43561, 43566>>, <<43569, 43570>>, <<43573, 43574>>,
     <<43587, 43587>>, <<43596, 43596>>, <<43632, 43632>>, <<43644,
     43644>>, <<43696, 43696>>, <<43698, 43700>>, <<43703, 43704>>,
     <<43710, 43711>>, <<43713, 43713>>, <<43741, 43741>>, <<43756,
     43757>>, <<43763, 43764>>, <<43766, 43766>>, <<43867, 43871>>,
     <<43881, 43883>>, <<44005, 44005>>, <<44008, 44008>>, <<44013,
     44013>>, <<64286, 64286>>, <<64434, 64450>>, <<65024, 65039>>,
     <<65043, 65043>>, <<65056, 65071>>, <<65106, 65106>>, <<65109,
     65109>>, <<65279, 65279>>, <<65287, 65287>>, <<65294, 65294>>,
     <<65306, 65306>>, <<65342, 65342>>, <<65344, 65344>>, <<65392,
     65392>>, <<65438, 65439>>, <<65507, 65507>>, <<65529, 65531>>,
     <<66045, 66045>>, <<66272, 66272>>, <<66422, 66426>>, <<67456,
     67461>>, <<67463, 67504>>, <<67506, 67514>>, <<68097, 68099>>,
     <<68101, 68102>>, <<68108, 68111>>, <<68152, 68154>>, <<68159,
     68159>>, <<68325, 68326>>, <<68900, 68903>>, <<69291, 69292>>,
     <<69446, 69456>>, <<69506, 69509>>, <<69633, 69633>>, <<69688,
     69702>>, <<69744, 69744>>, <<69747, 69748>>, <<69759, 69761>>,
     <<69811, 69814>>, <<69817, 69818>>, <<69821, 69821>>, <<69826,
     69826>>, <<69837, 69837>>, <<69888, 69890>>, <<69927, 69931>>,
     <<69933, 69940>>, <<70003, 70003>>, <<70016, 70017>>, <<70070,
     70078>>, <<70089, 70092>>, <<70095, 70095>>, <<70191, 70193>>,
     <<70196, 70196>>, <<70198, 70199>>, <<70206, 70206>>, <<70367,
     70367>>, <<70371, 70378>>, <<70400, 70401>>, <<70459, 70460>>,
     <<70464, 70464>>, <<70502, 70508>>, <<70512, 70516>>, <<70712,
     70719>>, <<70722, 70724>>, <<70726, 70726>>, <<70750, 70750>>,
     <<70835, 70840>>, <<70842, 70842>>, <<70847, 70848>>, <<70850,
     70851>>, <<71090, 71093>>, <<71100, 71101>>, <<71103, 71104>>,
     <<71132, 71133>>, <<71219, 71226>>, <<71229, 71229>>, <<71231,
     71232>>, <<71339, 71339>>, <<71341, 71341>>, <<71344, 71349>>,
     <<71351, 71351>>, <<71453, 71455>>, <<71458, 71461>>, <<71463,
     71467>>, <<71727, 71735>>, <<71737, 71738>>, <<71995, 71996>>,
     <<71998, 71998>>, <<72003, 72003>>, <<72148, 72151>>, <<72154,
     72155>>, <<72160, 72160>>, <<72193, 72202>>, <<72243, 72248>>,
     <<72251, 72254>>, <<72263, 72263>>, <<72273, 72278>>, <<72281,
     72283>>, <<72330, 72342>>, <<72344, 72345>>, <<72752, 72758>>,
     <<72760, 72765>>, <<72767, 72767>>, <<72850, 72871>>, <<72874,
     72880>>, <<72882, 72883>>, <<72885, 72886>>, <<73009, 73014>>,
     <<73018, 73018>>, <<73020, 73021>>, <<73023, 73029>>, <<73031,
     73031>>, <<73104, 73105>>, <<73109, 73109>>, <<73111, 73111>>,
     <<73459, 73460>>, <<78896, 78904>>, <<92912, 92916>>, <<92976,
     92982>>, <<92992, 92995>>, <<94031, 94031>>, <<94095, 94111>>,
     <<94176, 94177>>, <<94179, 94180>>, <<110576, 110579>>, <<110581,
     110587>>, <<110589, 110590>>, <<113821, 113822>>, <<113824, 113827>>,
     <<118528, 118573>>, <<118576, 118598>>, <<119143, 119145>>, <<119155,
     119170>>, <<119173, 119179>>, <<119210, 119213>>, <<119362, 119364>>,
     <<121344, 121398>>, <<121403, 121452>>, <<121461, 121461>>, <<121476,
     121476>>, <<121499, 121503>>, <<121505, 121519>>, <<122880, 122886>>,
     <<122888, 122904>>, <<122907, 122913>>, <<122915, 122916>>, <<122918,
     122922>>, <<123184, 123197>>, <<123566, 123566>>, <<123628, 123631>>,
     <<125136, 125142>>, <<125252, 125259>>, <<127995, 127999>>, <<917505,
     917505>>, <<917536, 917631>>, <<917760, 917999>>}

is_cased(c) == \E r \in CasedIntervals : r[1] <= c /\ c <= r[2]

is_case_ignorable(c) == \E r \in IgnorableIntervals : r[1] <= c /\ c <= r[2]

\* the full lower case of one character, out of context: itself, its
\* lower-case letter, or "i" and a combining dot for U+0130
lower_char(c) ==
    IF c < 128
    THEN IF 65 <= c /\ c <= 90 THEN <<c + 32>> ELSE <<c>>
    ELSE IF c = 304 THEN <<105, 775>>
    ELSE IF \E r \in LowerRanges : r[1] <= c /\ c <= r[2] /\ (c - r[1]) % r[3] = 0
    THEN LET r == CHOOSE q \in LowerRanges :
                    q[1] <= c /\ c <= q[2] /\ (c - q[1]) % q[3] = 0
         IN  <<c + r[4]>>
    ELSE <<c>>

\* whether the capital sigma at s[i] is in final position: a cased character
\* before it and none after it, case-ignorable characters skipped
final_sigma(s, i) ==
    LET before == {j \in 1..(i - 1) : ~is_case_ignorable(s[j])}
        after  == {j \in (i + 1)..Len(s) : ~is_case_ignorable(s[j])}
    IN  /\ before # {}
        /\ is_cased(s[CHOOSE j \in before : \A k \in before : k <= j])
        /\ \/ after = {}
           \/ ~is_cased(s[CHOOSE j \in after : \A k \in after : j <= k])

\* the lower case of the character s[i] within s
lower_at(s, i) ==
    IF s[i] = 931
    THEN IF final_sigma(s, i) THEN <<962>> ELSE <<963>>
    ELSE lower_char(s[i])

RECURSIVE lower_upto(_, _)
lower_upto(s, n) == IF n = 0 THEN <<>> ELSE lower_upto(s, n - 1) \o lower_at(s, n)

\* str.lower()
lower(s) == lower_upto(s, Len(s))

\* `sub in s`
contains(s, sub) ==
    \E i \in 1..(Len(s) - Len(sub) + 1) : SubSeq(s, i, i + Len(sub) - 1) = sub

\* s.startswith(prefix)
startswith(s, prefix) ==
    Len(s) >= Len(prefix) /\ SubSeq(s, 1, Len(prefix)) = prefix

\* s.endswith(suffix)
endswith(s, suffix) ==
    Len(s) >= Len(suffix) /\ SubSeq(s, Len(s) - Len(suffix) + 1, Len(s)) = suffix

\* s.strip()
strip(s) ==
    LET keep == {i \in 1..Len(s) : s[i] \notin Whitespace}
    IN  IF keep = {} THEN <<>>
        ELSE LET first == CHOOSE i \in keep : \A j \in keep : i <= j
                 last  == CHOOSE i \in keep : \A j \in keep : j <= i
             IN  SubSeq(s, first, last)

\* s.replace(" ", "")
remove_spaces(s) == SelectSeq(s, LAMBDA c : c # 32)

\* s.replace("00", "+", 1)
replace_first_00(s) ==
    LET hits == {i \in 1..(Len(s) - 1) : s[i] = 48 /\ s[i + 1] = 48}
    IN  IF hits = {} THEN s
        ELSE LET i == CHOOSE h \in hits : \A k \in hits : h <= k
             IN  SubSeq(s, 1, i - 1) \o <<43>> \o SubSeq(s, i + 2, Len(s))

\* s.replace("0", "+", 1): the one-character typo of the pattern
replace_first_0(s) ==
    LET hits == {i \in 1..Len(s) : s[i] = 48}
    IN  IF hits = {} THEN s
        ELSE LET i == CHOOSE h \in hits : \A k \in hits : h <= k
             IN  SubSeq(s, 1, i - 1) \o <<43>> \o SubSeq(s, i + 1, Len(s))

normalize_phone_typo(phone) == replace_first_0(remove_spaces(strip(phone)))

\* normalize_phone(phone)
normalize_phone(phone) == replace_first_00(remove_spaces(strip(phone)))

(***************************************************************************)
(* String literals of the program, and the strings the runs are fed.       *)
(***************************************************************************)
S_doc == <<100, 111, 99>>  \* "doc"
S_dott == <<100, 111, 116, 116>>  \* "dott"
S_medi == <<109, 101, 100, 105>>  \* "medi"
S_rist == <<114, 105, 115, 116>>  \* "rist"
S_rest == <<114, 101, 115, 116>>  \* "rest"
S_cern_ch == <<99, 101, 114, 110, 46, 99, 104>>  \* "cern.ch"
S_plus41 == <<43, 52, 49>>  \* "+41"
S_plus39 == <<43, 51, 57>>  \* "+39"
S_plus33 == <<43, 51, 51>>  \* "+33"
UnnamedContact == <<85, 110, 110, 97, 109, 101, 100, 32, 67, 111, 110, 116, 97, 99, 116>>  \* "Unnamed Contact"

N_DottRest == <<68, 111, 116, 116, 32, 82, 101, 115, 116>>  \* "Dott Rest"
N_Rist == <<82, 105, 115, 116>>  \* "Rist"
N_Bo == <<66, 111>>  \* "Bo"
N_Al == <<65, 108>>  \* "Al"
E_cern == <<97, 64, 99, 101, 114, 110, 46, 99, 104>>  \* "a@cern.ch"
E_other == <<98, 64, 120, 46, 105, 111>>  \* "b@x.io"
T_41 == <<32, 48, 48, 52, 49, 32, 55>>  \* " 0041 7"
T_39 == <<43, 51, 57>>  \* "+39"
T_0039 == <<48, 48, 51, 57>>  \* "0039"
T_33 == <<48, 48, 51, 51, 48, 48>>  \* "003300"
T_example == <<43, 52, 49, 55, 57, 49, 50, 51, 52, 53, 54, 55>>  \* "+41791234567"

\* a content line of a card: its value and its TYPE parameter ("" for none)
Line(v, t) == [value |-> v, type_param |-> t]

\* zero or one content line holding a value of the set vals
OptLines(vals) == {<<>>} \cup {<<Line(v, "")>> : v \in vals}

\* the cards a run of the classification checks may find in the input file
CardPool ==
    [fn : OptLines({N_DottRest, N_Rist, N_Bo}),
     email : OptLines({E_cern}),
     tel : OptLines({T_33})]
    \cup {[fn |-> <<Line(N_DottRest, "")>>, email |-> <<Line(E_cern, "")>>,
           tel |-> <<Line(T_41, "")>>],
          [fn |-> <<>>, email |-> <<>>, tel |-> <<Line(T_41, "")>>],
          [fn |-> <<Line(N_Bo, "")>>, email |-> <<Line(E_other, "")>>,
           tel |-> <<Line(T_39, "")>>],
          [fn |-> <<Line(N_Al, "")>>, email |-> <<>>, tel |-> <<Line(T_0039, "")>>]}

\* the cards a run of the duplicate checks may find in the input file
DupCardPool ==
    [fn : {<<Line(N_Al, "")>>, <<Line(N_Bo, "")>>},
     email : OptLines({E_cern}),
     tel : OptLines({T_39, T_0039})]

\* the lists of at most n elements of the set S
RECURSIVE ListsUpTo(_, _)
ListsUpTo(S, n) ==
    IF n = 0 THEN {<<>>}
    ELSE LET shorter == ListsUpTo(S, n - 1)
         IN  shorter \cup {Append(l, x) : l \in {m \in shorter : Len(m) = n - 1}, x \in S}

(***************************************************************************)
(* The functions of process_contacts.py.                                   *)
(***************************************************************************)
\* parse_vcf: one contact per card, the first fn/email/tel line or ""
parse_vcf(cards) ==
    [i \in 1..Len(cards) |->
        [Name  |-> IF cards[i].fn # <<>> THEN cards[i].fn[1].value ELSE <<>>,
         Email |-> IF cards[i].email # <<>> THEN cards[i].email[1].value ELSE <<>>,
         Phone |-> IF cards[i].tel # <<>> THEN cards[i].tel[1].value ELSE <<>>]]

\* the loop of filter_contacts that normalizes every Phone
normalize_all(cs) ==
    [i \in 1..Len(cs) |-> [cs[i] EXCEPT !.Phone = normalize_phone(cs[i].Phone)]]

contact_in_list_name_only(contact, contact_list) ==
    \E i \in 1..Len(contact_list) : contact_list[i].Name = contact.Name

\* contact_in_list(contact, contact_list)
contact_in_list(contact, contact_list) ==
    \E i \in 1..Len(contact_list) :
        /\ contact_list[i].Name = contact.Name
        /\ contact_list[i].Email = contact.Email
        /\ contact_list[i].Phone = contact.Phone

LabelsSwapped ==
    <<"Restaurants", "Doctors", "cern_emails",
      "phone_prefix_41", "phone_prefix_39", "phone_prefix_33">>

\* the keys of the dict `filters`, in insertion order
Labels ==
    <<"Doctors", "Restaurants", "cern_emails",
      "phone_prefix_41", "phone_prefix_39", "phone_prefix_33">>

\* the labels files are written for, in the order of the run
AllLabels == Labels \o <<"all_others">>

\* filters[label](contact)
condition(label, contact) ==
    CASE label = "Doctors" ->
            LET name == lower(contact.Name)
            IN  contains(name, S_doc) \/ contains(name, S_dott) \/ contains(name, S_medi)
      [] label = "Restaurants" ->
            LET name == lower(contact.Name)
            IN  contains(name, S_rist) \/ contains(name, S_rest)
      [] label = "cern_emails" -> endswith(contact.Email, S_cern_ch)
      [] label = "phone_prefix_41" -> startswith(contact.Phone, S_plus41)
      [] label = "phone_prefix_39" -> startswith(contact.Phone, S_plus39)
      [] label = "phone_prefix_33" -> startswith(contact.Phone, S_plus33)

select_ignoring_processed(label, cs, processed) ==
    SelectSeq(cs, LAMBDA c : condition(label, c))

\* the list comprehension of a rule: matching and not yet processed
select(label, cs, processed) ==
    SelectSeq(cs, LAMBDA c : condition(label, c) /\ ~contact_in_list(c, processed))

remaining_unfiltered(cs, processed) == cs

\* remaining_contacts: the contacts no rule has taken
remaining(cs, processed) ==
    SelectSeq(cs, LAMBDA c : ~contact_in_list(c, processed))

vcard_of_without_tel(contact) ==
    [fn |-> <<Line(IF contact.Name # <<>> THEN contact.Name ELSE UnnamedContact, "")>>,
     email |-> IF contact.Email # <<>> THEN <<Line(contact.Email, "INTERNET")>> ELSE <<>>,
     tel |-> <<>>]

\* the card write_vcf builds for one contact
vcard_of(contact) ==
    [fn |-> <<Line(IF contact.Name # <<>> THEN contact.Name ELSE UnnamedContact, "")>>,
     email |-> IF contact.Email # <<>> THEN <<Line(contact.Email, "INTERNET")>> ELSE <<>>,
     tel |-> IF contact.Phone # <<>> THEN <<Line(contact.Phone, "CELL")>> ELSE <<>>]

\* write_vcf: the cards serialized into the file
write_vcf(cs) == [i \in 1..Len(cs) |-> vcard_of(cs[i])]

\* write_csv: the header and the rows of the file
write_csv(cs) == [header |-> <<"Name", "Email", "Phone">>, rows |-> cs]

\* one step of the loop that fills email_map / phone_map
map_add(map, key, contact) ==
    IF \E k \in 1..Len(map) : map[k].key = key
    THEN LET k == CHOOSE j \in 1..Len(map) : map[j].key = key
         IN  [map EXCEPT ![k].members = Append(@, contact)]
    ELSE Append(map, [key |-> key, members |-> <<contact>>])

RECURSIVE build_map_keeping_empty(_, _)
build_map_keeping_empty(cs, field) ==
    IF cs = <<>> THEN <<>>
    ELSE LET c == cs[Len(cs)]
         IN  map_add(build_map_keeping_empty(SubSeq(cs, 1, Len(cs) - 1), field), c[field], c)

\* email_map (field "Email") or phone_map (field "Phone") after the loop
\* over contacts: the contacts with a non-empty field, grouped by it
RECURSIVE build_map(_, _)
build_map(cs, field) ==
    IF cs = <<>> THEN <<>>
    ELSE LET c == cs[Len(cs)]
             before == build_map(SubSeq(cs, 1, Len(cs) - 1), field)
         IN  IF c[field] # <<>> THEN map_add(before, c[field], c) ELSE before

\* duplicate_emails / duplicate_phones: the groups of more than one contact
duplicates(map) == SelectSeq(map, LAMBDA g : Len(g.members) > 1)

duplicate_phones_rebuilt(map, cs) == duplicates(build_map(cs, "Phone"))

\* duplicate_phones: taken from the phone_map built before the report was
\* written, whatever the name `contacts` (cs) is bound to by now
duplicate_phones(map, cs) == duplicates(map)

\* one check_file.write call: the fixed text and the values formatted into it
Write(text, args) == [text |-> text, args |-> args]

\* the lines of one duplicate group: its heading, then one line per member
group_lines(g, heading, item, shown) ==
    <<Write(heading, <<g.key>>)>> \o
    [i \in 1..Len(g.members) |-> Write(item, <<g.members[i].Name, g.members[i][shown]>>)]

RECURSIVE groups_lines(_, _, _, _)
groups_lines(dups, heading, item, shown) ==
    IF dups = <<>> THEN <<>>
    ELSE group_lines(dups[1], heading, item, shown)
            \o groups_lines(Tail(dups), heading, item, shown)

\* the lines the duplicate-email part of the report writes
email_lines(dups) ==
    IF dups # <<>>
    THEN <<Write("Check 2 FAILED: Duplicate emails found.", <<>>)>>
            \o groups_lines(dups, "Duplicate email: ", "  - Name: , Phone: ", "Phone")
    ELSE <<Write("Check 2 PASSED: No duplicate emails found.", <<>>)>>

\* the lines the duplicate-phone part of the report writes
phone_lines(dups) ==
    IF dups # <<>>
    THEN <<Write("Check 2 FAILED: Duplicate phone numbers found.", <<>>)>>
            \o groups_lines(dups, "Duplicate phone: ", "  - Name: , Email: ", "Email")
    ELSE <<Write("Check 2 PASSED: No duplicate phone numbers found.", <<>>)>>

\* the name `contacts` after a `for key, contacts in dups.items()` loop
rebound(cs, dups) == IF dups # <<>> THEN dups[Len(dups)].members ELSE cs

\* the group whose heading or member line is line m of groups_lines(dups, ...)
RECURSIVE group_at(_, _)
group_at(dups, m) ==
    IF m <= 1 + Len(dups[1].members) THEN 1
    ELSE 1 + group_at(Tail(dups), m - 1 - Len(dups[1].members))

\* the name `contacts` when write number n + 1 of a duplicate part raises:
\* unchanged at the part's first line, else the group whose line it is
rebound_at(cs, dups, n) ==
    IF dups = <<>> \/ n = 0 THEN cs ELSE dups[group_at(dups, n)].members

\* sum(filtered_counts.values())
RECURSIVE sum_counts(_)
sum_counts(counts) ==
    IF counts = <<>> THEN 0 ELSE counts[1].count + sum_counts(Tail(counts))

\* the lines of check 1
count_lines(n, total) ==
    <<Write("Initial number of contacts: ", <<n>>),
      Write("Total number of filtered contacts: ", <<total>>),
      IF n = total
      THEN Write("Check 1 PASSED: Total contacts match.", <<>>)
      ELSE Write("Check 1 FAILED: Total contacts do not match.", <<>>)>>

\* os.path.join(output_dir, f"{label}.csv") and f"{label}.vcf"
csv_name(label) == label \o ".csv"
vcf_name(label) == label \o ".vcf"

continue_after_failure(next) == next

\* where the run goes when a write raises: nothing catches the exception
after_failure(next) == "error"

(***************************************************************************)
(* The run of the script: __main__, then filter_contacts step by step.     *)
(* Every file operation either succeeds or raises; nothing in the script   *)
(* catches an exception.                                                   *)
(***************************************************************************)
PipelineStart(pool, n) ==
    /\ pc = "main"
    /\ input_file \in
          {[readable |-> FALSE, cards |-> <<>>]}
              \cup {[readable |-> TRUE, cards |-> l] : l \in ListsUpTo(pool, n)}
    /\ dir_exists \in BOOLEAN
    /\ dir_created = FALSE
    /\ contacts = <<>>
    /\ all_contacts = <<>>
    /\ processed_contacts = <<>>
    /\ rule_idx = 1
    /\ buckets = <<>>
    /\ filtered_counts = <<>>
    /\ written = <<>>
    /\ vcf_files = <<>>
    /\ csv_files = <<>>
    /\ email_map = <<>>
    /\ phone_map = <<>>
    /\ report = <<>>
    /\ report_open = FALSE

NormalizeIdle ==
    /\ np_pc = "idle"
    /\ np_in = <<>>
    /\ np_once = <<>>
    /\ np_twice = <<>>

Init == PipelineStart(CardPool, MaxContacts) /\ NormalizeIdle

InitDup == PipelineStart(DupCardPool, MaxDupContacts) /\ NormalizeIdle

\* os.makedirs(output_dir, exist_ok=True) succeeds
Main ==
    /\ pc = "main"
    /\ dir_created' = ~dir_exists
    /\ dir_exists' = TRUE
    /\ pc' = "parse"
    /\ UNCHANGED <<input_file, contacts, all_contacts, processed_contacts,
                   rule_idx, buckets, filtered_counts, written, vcf_files,
                   csv_files, email_map, phone_map, report, report_open>>

\* os.makedirs raises: the directory is absent and cannot be created
MainMakedirsFails ==
    /\ pc = "main"
    /\ ~dir_exists
    /\ pc' = after_failure("parse")
    /\ UNCHANGED <<input_file, dir_exists, dir_created, contacts, all_contacts,
                   processed_contacts, rule_idx, buckets, filtered_counts,
                   written, vcf_files, csv_files, email_map, phone_map, report,
                   report_open>>

\* parse_vcf raises on a missing or unreadable input file
ParseFails ==
    /\ pc = "parse"
    /\ ~input_file.readable
    /\ pc' = "input_error"
    /\ UNCHANGED <<input_file, dir_exists, dir_created, contacts, all_contacts,
                   processed_contacts, rule_idx, buckets, filtered_counts,
                   written, vcf_files, csv_files, email_map, phone_map, report,
                   report_open>>

\* contacts = parse_vcf(input_file), then every Phone normalized
Parse ==
    /\ pc = "parse"
    /\ input_file.readable
    /\ contacts' = normalize_all(parse_vcf(input_file.cards))
    /\ all_contacts' = contacts'
    /\ pc' = "select"
    /\ UNCHANGED <<input_file, dir_exists, dir_created, processed_contacts,
                   rule_idx, buckets, filtered_counts, written, vcf_files,
                   csv_files, email_map, phone_map, report, report_open>>

\* one rule of the loop over filters: select, then mark as processed
Select ==
    /\ pc = "select"
    /\ rule_idx <= Len(Labels)
    /\ LET filtered == select(Labels[rule_idx], contacts, processed_contacts)
       IN  /\ buckets' = Append(buckets, filtered)
           /\ processed_contacts' = processed_contacts \o filtered
    /\ pc' = "write_csv"
    /\ UNCHANGED <<input_file, dir_exists, dir_created, contacts, all_contacts,
                   rule_idx, filtered_counts, written, vcf_files, csv_files,
                   email_map, phone_map, report, report_open>>

\* after the loop: remaining_contacts for all_others
Remainder ==
    /\ pc = "select"
    /\ rule_idx = Len(Labels) + 1
    /\ buckets' = Append(buckets, remaining(contacts, processed_contacts))
    /\ pc' = "write_csv"
    /\ UNCHANGED <<input_file, dir_exists, dir_created, contacts, all_contacts,
                   processed_contacts, rule_idx, filtered_counts, written,
                   vcf_files, csv_files, email_map, phone_map, report,
                   report_open>>

\* write_csv of the current list succeeds
WriteCsv ==
    /\ pc = "write_csv"
    /\ csv_files' = Append(csv_files, write_csv(buckets[rule_idx]))
    /\ written' = Append(written, csv_name(AllLabels[rule_idx]))
    /\ pc' = "write_vcf"
    /\ UNCHANGED <<input_file, dir_exists, dir_created, contacts, all_contacts,
                   processed_contacts, rule_idx, buckets, filtered_counts,
                   vcf_files, email_map, phone_map, report, report_open>>

\* write_csv raises
WriteCsvFails ==
    /\ pc = "write_csv"
    /\ pc' = after_failure("write_vcf")
    /\ UNCHANGED <<input_file, dir_exists, dir_created, contacts, all_contacts,
                   processed_contacts, rule_idx, buckets, filtered_counts,
                   written, vcf_files, csv_files, email_map, phone_map, report,
                   report_open>>

\* write_vcf of the current list succeeds, then its count is recorded
WriteVcf ==
    /\ pc = "write_vcf"
    /\ vcf_files' = Append(vcf_files, write_vcf(buckets[rule_idx]))
    /\ written' = Append(written, vcf_name(AllLabels[rule_idx]))
    /\ filtered_counts' =
          Append(filtered_counts,
                 [label |-> AllLabels[rule_idx], count |-> Len(buckets[rule_idx])])
    /\ rule_idx' = rule_idx + 1
    /\ pc' = IF rule_idx <= Len(Labels) THEN "select" ELSE "check"
    /\ UNCHANGED <<input_file, dir_exists, dir_created, contacts, all_contacts,
                   processed_contacts, buckets, csv_files, email_map, phone_map,
                   report, report_open>>

\* write_vcf raises
WriteVcfFails ==
    /\ pc = "write_vcf"
    /\ pc' = after_failure(IF rule_idx <= Len(Labels) THEN "select" ELSE "check")
    /\ UNCHANGED <<input_file, dir_exists, dir_created, contacts, all_contacts,
                   processed_contacts, rule_idx, buckets, filtered_counts, written,
                   vcf_files, csv_files, email_map, phone_map, report,
                   report_open>>

\* check_results.txt is opened, check 1 is written, the two maps are built
Check ==
    /\ pc = "check"
    /\ report_open' = TRUE
    /\ report' = count_lines(Len(contacts), sum_counts(filtered_counts))
    /\ email_map' = build_map(contacts, "Email")
    /\ phone_map' = build_map(contacts, "Phone")
    /\ pc' = "report_emails"
    /\ UNCHANGED <<input_file, dir_exists, dir_created, contacts, all_contacts,
                   processed_contacts, rule_idx, buckets, filtered_counts,
                   written, vcf_files, csv_files>>

\* check_results.txt is opened and one of the writes of check 1 raises
CheckWriteFails ==
    /\ pc = "check"
    /\ report_open' = TRUE
    /\ \E n \in 0..2 :
          report' = SubSeq(count_lines(Len(contacts), sum_counts(filtered_counts)), 1, n)
    /\ pc' = after_failure("report_emails")
    /\ UNCHANGED <<input_file, dir_exists, dir_created, contacts, all_contacts,
                   processed_contacts, rule_idx, buckets, filtered_counts,
                   written, vcf_files, csv_files, email_map, phone_map>>

\* opening check_results.txt raises
CheckFails ==
    /\ pc = "check"
    /\ pc' = after_failure("report_emails")
    /\ UNCHANGED <<input_file, dir_exists, dir_created, contacts, all_contacts,
                   processed_contacts, rule_idx, buckets, filtered_counts,
                   written, vcf_files, csv_files, email_map, phone_map, report,
                   report_open>>

\* the duplicate-email part; its loop rebinds the name `contacts`
ReportEmails ==
    /\ pc = "report_emails"
    /\ LET dups == duplicates(email_map)
       IN  /\ report' = report \o email_lines(dups)
           /\ contacts' = rebound(contacts, dups)
    /\ pc' = "report_phones"
    /\ UNCHANGED <<input_file, dir_exists, dir_created, all_contacts,
                   processed_contacts, rule_idx, buckets, filtered_counts,
                   written, vcf_files, csv_files, email_map, phone_map,
                   report_open>>

\* a write of the duplicate-email part raises after n of its lines
ReportEmailsFails ==
    /\ pc = "report_emails"
    /\ LET dups == duplicates(email_map)
           lines == email_lines(dups)
       IN  \E n \in 0..(Len(lines) - 1) :
              /\ report' = report \o SubSeq(lines, 1, n)
              /\ contacts' = rebound_at(contacts, dups, n)
    /\ pc' = after_failure("report_phones")
    /\ UNCHANGED <<input_file, dir_exists, dir_created, all_contacts,
                   processed_contacts, rule_idx, buckets, filtered_counts,
                   written, vcf_files, csv_files, email_map, phone_map,
                   report_open>>

\* the duplicate-phone part; its loop rebinds the name `contacts` too
ReportPhones ==
    /\ pc = "report_phones"
    /\ LET dups == duplicate_phones(phone_map, contacts)
       IN  /\ report' = report \o phone_lines(dups)
           /\ contacts' = rebound(contacts, dups)
    /\ pc' = "done"
    /\ UNCHANGED <<input_file, dir_exists, dir_created, all_contacts,
                   processed_contacts, rule_idx, buckets, filtered_counts,
                   written, vcf_files, csv_files, email_map, phone_map,
                   report_open>>

\* a write of the duplicate-phone part raises after n of its lines, or
\* (n = all lines) closing check_results.txt raises when the buffered
\* report is flushed
ReportPhonesFails ==
    /\ pc = "report_phones"
    /\ LET dups == duplicate_phones(phone_map, contacts)
           lines == phone_lines(dups)
       IN  \E n \in 0..Len(lines) :
              /\ report' = report \o SubSeq(lines, 1, n)
              /\ contacts' = IF n = Len(lines) THEN rebound(contacts, dups)
                             ELSE rebound_at(contacts, dups, n)
    /\ pc' = after_failure("done")
    /\ UNCHANGED <<input_file, dir_exists, dir_created, all_contacts,
                   processed_contacts, rule_idx, buckets, filtered_counts,
                   written, vcf_files, csv_files, email_map, phone_map,
                   report_open>>

Next ==
    \/ (Main /\ UNCHANGED np_vars)
    \/ (MainMakedirsFails /\ UNCHANGED np_vars)
    \/ (ParseFails /\ UNCHANGED np_vars)
    \/ (Parse /\ UNCHANGED np_vars)
    \/ (Select /\ UNCHANGED np_vars)
    \/ (Remainder /\ UNCHANGED np_vars)
    \/ (WriteCsv /\ UNCHANGED np_vars)
    \/ (WriteCsvFails /\ UNCHANGED np_vars)
    \/ (WriteVcf /\ UNCHANGED np_vars)
    \/ (WriteVcfFails /\ UNCHANGED np_vars)
    \/ (Check /\ UNCHANGED np_vars)
    \/ (CheckWriteFails /\ UNCHANGED np_vars)
    \/ (CheckFails /\ UNCHANGED np_vars)
    \/ (ReportEmails /\ UNCHANGED np_vars)
    \/ (ReportEmailsFails /\ UNCHANGED np_vars)
    \/ (ReportPhones /\ UNCHANGED np_vars)
    \/ (ReportPhonesFails /\ UNCHANGED np_vars)

Spec == Init /\ [][Next]_vars

SpecDup == InitDup /\ [][Next]_vars

(***************************************************************************)
(* normalize_phone applied once and twice to a bounded set of strings.     *)
(***************************************************************************)
\* "0", "4", "+", " ", tab, vertical tab
PhoneChars == {48, 52, 43, 32, 9, 11}

PipelineIdle ==
    /\ pc = "idle"
    /\ input_file = [readable |-> FALSE, cards |-> <<>>]
    /\ dir_exists = FALSE
    /\ dir_created = FALSE
    /\ contacts = <<>>
    /\ all_contacts = <<>>
    /\ processed_contacts = <<>>
    /\ rule_idx = 1
    /\ buckets = <<>>
    /\ filtered_counts = <<>>
    /\ written = <<>>
    /\ vcf_files = <<>>
    /\ csv_files = <<>>
    /\ email_map = <<>>
    /\ phone_map = <<>>
    /\ report = <<>>
    /\ report_open = FALSE

InitNorm ==
    /\ PipelineIdle
    /\ np_pc = "start"
    /\ np_in \in ListsUpTo(PhoneChars, MaxPhoneLen)
    /\ np_once = <<>>
    /\ np_twice = <<>>

NormalizeOnce ==
    /\ np_pc = "start"
    /\ np_once' = normalize_phone(np_in)
    /\ np_pc' = "once"
    /\ UNCHANGED <<np_in, np_twice>>
    /\ UNCHANGED pipeline_vars

NormalizeTwice ==
    /\ np_pc = "once"
    /\ np_twice' = normalize_phone(np_once)
    /\ np_pc' = "twice"
    /\ UNCHANGED <<np_in, np_once>>
    /\ UNCHANGED pipeline_vars

NextNorm == NormalizeOnce \/ NormalizeTwice

SpecNorm == InitNorm /\ [][NextNorm]_vars

(***************************************************************************)
(* The properties checked of the runs.                                     *)
(***************************************************************************)
\* the order in which the rules are declared, and the remainder after them
DeclaredOrder ==
    <<"Doctors", "Restaurants", "cern_emails",
      "phone_prefix_41", "phone_prefix_39", "phone_prefix_33">>

BucketLabels == DeclaredOrder \o <<"all_others">>

\* all seven lists have been computed
Classified == Len(buckets) = Len(BucketLabels)

\* the list computed for a label (before it is computed: empty)
BucketOf(label) ==
    IF \E k \in 1..Len(buckets) : AllLabels[k] = label
    THEN buckets[CHOOSE k \in 1..Len(buckets) : AllLabels[k] = label]
    ELSE <<>>

\* number of elements of list l equal to v
Occurrences(l, v) == Cardinality({i \in 1..Len(l) : l[i] = v})

RECURSIVE TotalLen(_)
TotalLen(ls) == IF ls = <<>> THEN 0 ELSE Len(ls[1]) + TotalLen(Tail(ls))

RECURSIVE TotalOccurrences(_, _)
TotalOccurrences(ls, v) ==
    IF ls = <<>> THEN 0 ELSE Occurrences(ls[1], v) + TotalOccurrences(Tail(ls), v)

HasLine(text) == \E i \in 1..Len(report) : report[i].text = text

\* C1: once the seven lists are computed their sizes sum to the number of
\* input contacts, duplicates included; the counts recorded for the report
\* sum to it too, and the report never says "Check 1 FAILED": once check 1
\* is written it says "Check 1 PASSED".
C1_PartitionComplete ==
    /\ Classified => TotalLen(buckets) = Len(all_contacts)
    /\ report_open =>
          /\ sum_counts(filtered_counts) = Len(all_contacts)
          /\ ~HasLine("Check 1 FAILED: Total contacts do not match.")
    /\ pc \in {"report_emails", "report_phones", "done"} =>
          HasLine("Check 1 PASSED: Total contacts match.")

C1_Witness ==
    /\ pc = "done"
    /\ Len(all_contacts) = 2
    /\ all_contacts[1] = all_contacts[2]
    /\ all_contacts[1].Email # <<>>

\* C2: at every point of the fold, no contact value is in the lists of two
\* different labels.
C2_Disjoint ==
    \A k1, k2 \in 1..Len(buckets) :
        k1 # k2 =>
            \A i \in 1..Len(buckets[k1]) : Occurrences(buckets[k2], buckets[k1][i]) = 0

C2_Witness ==
    /\ Classified
    /\ \E i \in 1..Len(all_contacts) :
          /\ condition("Doctors", all_contacts[i])
          /\ condition("cern_emails", all_contacts[i])
          /\ condition("phone_prefix_41", all_contacts[i])
    /\ BucketOf("all_others") # <<>>

\* the first label in declared order whose predicate the contact satisfies
FirstMatch(c) ==
    IF \E k \in 1..Len(DeclaredOrder) : condition(DeclaredOrder[k], c)
    THEN DeclaredOrder[CHOOSE k \in 1..Len(DeclaredOrder) :
            /\ condition(DeclaredOrder[k], c)
            /\ \A j \in 1..(k - 1) : ~condition(DeclaredOrder[j], c)]
    ELSE "all_others"

\* C3: after classification every input contact is in the list of the first
\* rule, in declared order, that it satisfies, or in all_others when it
\* satisfies none, and in the list of no other label.
C3_FirstMatch ==
    Classified =>
        \A i \in 1..Len(all_contacts) :
            LET first == FirstMatch(all_contacts[i])
            IN  \A k \in 1..Len(BucketLabels) :
                    (Occurrences(BucketOf(BucketLabels[k]), all_contacts[i]) > 0)
                        <=> (BucketLabels[k] = first)

C3_Witness ==
    /\ Classified
    /\ \E i \in 1..Len(all_contacts) :
          /\ condition("Doctors", all_contacts[i])
          /\ condition("Restaurants", all_contacts[i])
          /\ Occurrences(BucketOf("Doctors"), all_contacts[i]) > 0
    /\ \E i \in 1..Len(all_contacts) :
          /\ all_contacts[i] = [Name |-> <<>>, Email |-> <<>>, Phone |-> <<>>]
          /\ Occurrences(BucketOf("all_others"), all_contacts[i]) > 0

\* C4 as stated: after classification every contact value of the input has
\* exactly one entry over the seven lists, also when the input repeats it.
C4_ExactlyOnceEach ==
    Classified =>
        \A i \in 1..Len(all_contacts) : TotalOccurrences(buckets, all_contacts[i]) = 1

\* C4 amended: after classification every contact value of the input has as
\* many entries over the seven lists as the input has occurrences of it, and
\* all of them are in the list of one label.
C4_OncePerOccurrence ==
    Classified =>
        \A i \in 1..Len(all_contacts) :
            /\ TotalOccurrences(buckets, all_contacts[i])
                  = Occurrences(all_contacts, all_contacts[i])
            /\ \E k \in 1..Len(buckets) :
                  Occurrences(buckets[k], all_contacts[i])
                      = Occurrences(all_contacts, all_contacts[i])

C4_Witness ==
    /\ Classified
    /\ Len(all_contacts) = 2
    /\ all_contacts[1] = all_contacts[2]
    /\ condition("Restaurants", all_contacts[1])
    /\ condition("phone_prefix_33", all_contacts[1])

Zeros == <<48, 48>>  \* "00"

\* C5 as stated: normalizing a normalized phone returns it unchanged, for
\* every phone string.
C5_Idempotent ==
    np_pc = "twice" => np_twice = np_once

\* C5 amended: normalizing a normalized phone returns it unchanged exactly
\* when the normalized phone contains no "00"; "+41791234567" is unchanged.
C5_IdempotentWithoutZeros ==
    /\ np_pc = "twice" => ((np_twice = np_once) <=> ~contains(np_once, Zeros))
    /\ normalize_phone(T_example) = T_example

C5_Witness ==
    /\ np_pc = "twice"
    /\ np_in = <<11, 48, 48, 52>>   \* "\x0b004"
    /\ np_once = <<43, 52>>         \* "+4"
    /\ np_twice = np_once

\* a written card file read back through parse_vcf and the normalization
ReadBack(cards) == normalize_all(parse_vcf(cards))

\* a contact as the card format shows it: an empty Name is "Unnamed Contact"
Shown(c) == [c EXCEPT !.Name = IF @ = <<>> THEN UnnamedContact ELSE @]

\* C6 as stated: every written .vcf file read back gives, in order, the
\* contacts of its list, an empty Name replaced by "Unnamed Contact".
C6_RoundTrip ==
    \A k \in 1..Len(vcf_files) :
        ReadBack(vcf_files[k]) = [i \in 1..Len(buckets[k]) |-> Shown(buckets[k][i])]

\* C6 amended: every written .vcf file read back gives, in order, the Name
\* ("Unnamed Contact" for an empty one) and the Email of the contacts of its
\* list, and as Phone the list's Phone normalized once more: the same Phone
\* when it contains no "00", and otherwise with its first "00" replaced by "+".
C6_RoundTripUpToZeros ==
    \A k \in 1..Len(vcf_files) :
        LET back == ReadBack(vcf_files[k])
        IN  /\ Len(back) = Len(buckets[k])
            /\ \A i \in 1..Len(back) :
                  /\ back[i].Name = Shown(buckets[k][i]).Name
                  /\ back[i].Email = buckets[k][i].Email
                  /\ back[i].Phone = normalize_phone(buckets[k][i].Phone)
                  /\ ~contains(buckets[k][i].Phone, Zeros)
                        => back[i].Phone = buckets[k][i].Phone
                  /\ contains(buckets[k][i].Phone, Zeros)
                        => back[i].Phone = replace_first_00(buckets[k][i].Phone)

C6_Witness ==
    /\ \E k \in 1..Len(vcf_files) : \E i \in 1..Len(buckets[k]) :
          /\ buckets[k][i].Name = <<>>
          /\ buckets[k][i].Email = <<>>
          /\ contains(buckets[k][i].Phone, Zeros)
    /\ \E k \in 1..Len(vcf_files) : \E i \in 1..Len(buckets[k]) :
          /\ buckets[k][i].Name # <<>>
          /\ buckets[k][i].Email # <<>>
          /\ buckets[k][i].Phone # <<>>
          /\ ~contains(buckets[k][i].Phone, Zeros)

\* the positions of the report's group headings of one kind
Headings(text) == {i \in 1..Len(report) : report[i].text = text}

\* the member lines that follow the heading at position i
RECURSIVE MembersAfter(_, _)
MembersAfter(i, item) ==
    IF i + 1 <= Len(report) /\ report[i + 1].text = item
    THEN <<report[i + 1].args>> \o MembersAfter(i + 1, item)
    ELSE <<>>

\* the input contacts whose field has the value v, in input order
WithField(field, v) == SelectSeq(all_contacts, LAMBDA c : c[field] = v)

\* the values of a field over the input, and the empty string
FieldValues(field) == {all_contacts[i][field] : i \in 1..Len(all_contacts)} \cup {<<>>}

\* the report's groups under a heading are exactly the non-empty values of
\* the field that at least two input contacts have, one group per value,
\* each listing all those contacts (Name and the other field) in input order
GroupsExact(field, shown, heading, item) ==
    /\ \A v \in FieldValues(field) :
          (\E i \in Headings(heading) : report[i].args = <<v>>)
              <=> (v # <<>> /\ Len(WithField(field, v)) >= 2)
    /\ \A i \in Headings(heading) :
          /\ report[i].args[1] \in FieldValues(field)
          /\ \A j \in Headings(heading) : report[j].args = report[i].args => j = i
          /\ MembersAfter(i, item) =
                [m \in 1..Len(WithField(field, report[i].args[1])) |->
                    <<WithField(field, report[i].args[1])[m].Name,
                      WithField(field, report[i].args[1])[m][shown]>>]

\* C7: once the email part of the report is written, its duplicate-email
\* groups are exactly the non-empty Emails that at least two input contacts
\* have, each listing every such contact; an empty Email is never grouped;
\* without groups the report says that no duplicate emails were found.
C7_DuplicateEmails ==
    pc \in {"report_phones", "done"} =>
        /\ GroupsExact("Email", "Phone", "Duplicate email: ", "  - Name: , Phone: ")
        /\ (Headings("Duplicate email: ") = {})
              <=> HasLine("Check 2 PASSED: No duplicate emails found.")
        /\ (Headings("Duplicate email: ") # {})
              <=> HasLine("Check 2 FAILED: Duplicate emails found.")

C7_Witness ==
    /\ pc = "done"
    /\ Len(all_contacts) = 3
    /\ all_contacts[1].Email = <<>>
    /\ all_contacts[2].Email = all_contacts[3].Email
    /\ all_contacts[2].Name # all_contacts[3].Name
    /\ all_contacts[2].Phone # all_contacts[3].Phone
    /\ \E i \in Headings("Duplicate email: ") :
          Len(MembersAfter(i, "  - Name: , Phone: ")) = 2

\* C8: at the end of the run the duplicate-phone groups of the report are
\* exactly the non-empty normalized Phones that at least two contacts of the
\* full input list have, each listing all of them, whether or not
\* duplicate-email groups were reported before.
C8_DuplicatePhones ==
    pc = "done" =>
        /\ GroupsExact("Phone", "Email", "Duplicate phone: ", "  - Name: , Email: ")
        /\ (Headings("Duplicate phone: ") = {})
              <=> HasLine("Check 2 PASSED: No duplicate phone numbers found.")
        /\ (Headings("Duplicate phone: ") # {})
              <=> HasLine("Check 2 FAILED: Duplicate phone numbers found.")

C8_Witness ==
    /\ pc = "done"
    /\ Len(all_contacts) = 3
    /\ all_contacts[1].Email = all_contacts[2].Email
    /\ all_contacts[1].Email # <<>>
    /\ all_contacts[3].Email = <<>>
    /\ all_contacts[1].Phone = all_contacts[3].Phone
    /\ all_contacts[1].Phone # <<>>
    /\ all_contacts[2].Phone = <<>>
    /\ Headings("Duplicate email: ") # {}
    /\ \E i \in Headings("Duplicate phone: ") :
          Len(MembersAfter(i, "  - Name: , Email: ")) = 2

\* C9: a run that ends on a missing or unreadable input file has written no
\* file and no report and has not created the output directory.
C9_InputErrorLeavesNothing ==
    pc = "input_error" =>
        /\ written = <<>>
        /\ ~report_open
        /\ ~dir_created

\* the fourteen list files in the order the run writes them
FileOrder ==
    <<"Doctors.csv", "Doctors.vcf", "Restaurants.csv", "Restaurants.vcf",
      "cern_emails.csv", "cern_emails.vcf",
      "phone_prefix_41.csv", "phone_prefix_41.vcf",
      "phone_prefix_39.csv", "phone_prefix_39.vcf",
      "phone_prefix_33.csv", "phone_prefix_33.vcf",
      "all_others.csv", "all_others.vcf">>

\* C10: the files written are always the first files of the run's order with
\* none skipped, so no file follows a failed write, and the report is opened
\* only after all fourteen files were written.
C10_WriteFailureAborts ==
    /\ Len(written) <= Len(FileOrder)
    /\ written = SubSeq(FileOrder, 1, Len(written))
    /\ report_open => written = FileOrder
    /\ pc \in {"select", "write_csv"} => Len(written) = 2 * (rule_idx - 1)
    /\ pc = "write_vcf" => Len(written) = 2 * rule_idx - 1

C10_Witness ==
    /\ pc = "error"
    /\ written = <<"Doctors.csv", "Doctors.vcf", "Restaurants.csv">>
    /\ Len(all_contacts) > 0

====
